---- MODULE Spec2Model ----
(***************************************************************************)
(* Model of backend/services/cache_service.py: the in-process TTL cache    *)
(* (CacheEntry, CacheService) in front of the Riot API client, and of the  *)
(* eviction test of backend/scripts_tests/test_cache.py that drives it.    *)
(*                                                                         *)
(* Time is datetime.now() in whole seconds.  One call of a cache method is *)
(* one step and reads the clock once; the clock advances between calls     *)
(* (Tick).  Optional values are sequences: <<>> is None, <<x>> is x.       *)
(***************************************************************************)
EXTENDS Integers, Sequences, FiniteSets, TLC

VARIABLES cache,        \* self.cache: key -> CacheEntry
          keyorder,     \* iteration order of the dict self.cache (insertion order)
          max_size,     \* self.max_size
          stats,        \* self.stats
          last_cleanup, \* self.last_cleanup
          now,          \* datetime.now()
          last,         \* the last step: the call, its arguments, return value, log line
          test_pc,      \* 0: arbitrary client; n > 0: next statement of test_cache_eviction
          test_times,   \* history: the clock at each statement of the test so far
          insert_run,   \* history: the keys set one after the other into an empty cache
          threads,      \* the calls in progress in each thread, statement by statement
          cache_instance, \* the module global _cache_instance and who got which instance
          client        \* the call in progress in a RiotAPIClient and what it did

vars == <<cache, keyorder, max_size, stats, last_cleanup, now, last, test_pc,
          test_times, insert_run, threads, cache_instance, client>>

\* the state outside the CacheService instance
process == <<cache_instance, client>>

(* ------------------------------ bounds --------------------------------- *)
\* calls stop once the statistics counters add up to this value
MaxCount == 3

(* --------------------------- program constants ------------------------- *)
DEFAULT_TTL ==
  [t \in {"account", "summoner", "match_ids", "match_details", "league",
          "analysis", "default"} |->
     CASE t = "account"       -> 86400
       [] t = "summoner"      -> 3600
       [] t = "match_ids"     -> 300
       [] t = "match_details" -> 3600
       [] t = "league"        -> 1800
       [] t = "analysis"      -> 1800
       [] t = "default"       -> 600]

CleanupInterval == 300
TestMaxSize == 3

(* ------------------------------ inputs --------------------------------- *)
None == <<>>
Some(x) == <<x>>

\* no get_cache() call has been made: _cache_instance is None, no CacheService
\* has been constructed for it and no caller holds one
NoInstance == [global |-> None, created |-> 0, held |-> {}]

\* a RiotAPIClient between two calls; log lists what its last call did, over
\* whether its cache.set found the key in the store, calls the calls so far
NoClient == [pc |-> "idle", method |-> "", key |-> "", cache_type |-> "",
             use_cache |-> TRUE, cached_data |-> None, data |-> None,
             log |-> <<>>, over |-> None, ret |-> None, exc |-> None,
             calls |-> 0]

TestKeys == <<"key1", "key2", "key3", "key4">>
ClientKeys == {"key1", "key2", "key3"}
Keys == {TestKeys[i] : i \in 1..Len(TestKeys)}
\* the client's cache holds one key less than the client uses
ClientMaxSize == Cardinality(ClientKeys) - 1

\* the clock values at which calls are made: around the TTL 0, the cleanup
\* interval and the default TTL; the client stays within the first three
TestTimes == {0, 1, 300, 301, 600, 601}
ClientTimes == {t \in TestTimes : t <= CleanupInterval}

\* the set calls of the client: <<key, data, ttl_seconds, cache_type>>
SetArgs ==
  {<<"key1", 1, None, "default">>, <<"key1", 2, Some(0), "default">>,
   <<"key2", 1, None, "default">>, <<"key3", 1, None, "default">>}

(* ------------------------------ CacheEntry ----------------------------- *)
\* CacheEntry.__init__; ttl_seconds keeps the constructor's argument for the
\* statements below, the code stores only expires_at
NewEntry(data, ttl_seconds, t) ==
  [data |-> data, created_at |-> t, expires_at |-> t + ttl_seconds,
   access_count |-> 0, last_accessed |-> t, ttl_seconds |-> ttl_seconds]

\* mutants of is_expired: a grace second; expired already at expires_at
is_expired_late(entry, t) == t > entry.expires_at + 1
is_expired_early(entry, t) == t >= entry.expires_at

is_expired(entry, t) == t > entry.expires_at

\* mutant of access: a read renews the entry (sliding expiration)
access_sliding(entry, t) ==
  [entry EXCEPT !.access_count = @ + 1, !.last_accessed = t,
                !.expires_at = t + entry.ttl_seconds]

access(entry, t) ==
  [entry EXCEPT !.access_count = @ + 1, !.last_accessed = t]

(* ----------------------------- dict helpers ---------------------------- *)
Range(s) == {s[i] : i \in 1..Len(s)}

\* del d[k]
RemoveKey(s, k) == SelectSeq(s, LAMBDA x : x # k)

\* d[k] = e on an insertion-ordered dict: a new key goes last, a key that is
\* present keeps its place
PutOrder(s, k) == IF k \in Range(s) THEN s ELSE Append(s, k)

Restrict(f, S) == [k \in S |-> f[k]]

EmptyDict == [k \in {} |-> None]

\* mutants of LruKey: max instead of min; the last of the minimal keys
LruKey_max(c, ord) ==
  LET isMax(i) == \A j \in 1..Len(ord) :
                     c[ord[i]].last_accessed >= c[ord[j]].last_accessed
      first == CHOOSE i \in 1..Len(ord) :
                 isMax(i) /\ \A j \in 1..(i - 1) : ~isMax(j)
  IN ord[first]

LruKey_last(c, ord) ==
  LET isMin(i) == \A j \in 1..Len(ord) :
                     c[ord[i]].last_accessed <= c[ord[j]].last_accessed
      lastmin == CHOOSE i \in 1..Len(ord) :
                 isMin(i) /\ \A j \in (i + 1)..Len(ord) : ~isMin(j)
  IN ord[lastmin]

\* min(self.cache.keys(), key=...): the first key, in iteration order, whose
\* last_accessed is minimal
LruKey(c, ord) ==
  LET isMin(i) == \A j \in 1..Len(ord) :
                     c[ord[i]].last_accessed <= c[ord[j]].last_accessed
      first == CHOOSE i \in 1..Len(ord) :
                 isMin(i) /\ \A j \in 1..(i - 1) : ~isMin(j)
  IN ord[first]

(* ------------------------------ CacheService --------------------------- *)
\* mutant of cache_full: evicts only once max_size is exceeded
cache_full_late(n, m) == n > m

\* len(self.cache) >= self.max_size
cache_full(n, m) == n >= m

\* mutant of evict_lru: the eviction is not counted
evict_lru_uncounted(c, ord, st) ==
  IF ord = <<>>
  THEN [cache |-> c, keyorder |-> ord, stats |-> st, evicted |-> None]
  ELSE LET lru_key == LruKey(c, ord)
       IN [cache |-> Restrict(c, DOMAIN c \ {lru_key}),
           keyorder |-> RemoveKey(ord, lru_key),
           stats |-> st,
           evicted |-> Some(lru_key)]

\* CacheService._evict_lru; evicted is the key of its log line
evict_lru(c, ord, st) ==
  IF ord = <<>>
  THEN [cache |-> c, keyorder |-> ord, stats |-> st, evicted |-> None]
  ELSE LET lru_key == LruKey(c, ord)
       IN [cache |-> Restrict(c, DOMAIN c \ {lru_key}),
           keyorder |-> RemoveKey(ord, lru_key),
           stats |-> [st EXCEPT !.evictions = @ + 1],
           evicted |-> Some(lru_key)]

\* mutant of periodic_cleanup: the sweep does not record its time
periodic_cleanup_stale(c, ord, st, lc, t) ==
  IF t - lc < CleanupInterval
  THEN [cache |-> c, keyorder |-> ord, stats |-> st, last_cleanup |-> lc]
  ELSE LET expired_keys == {k \in DOMAIN c : is_expired(c[k], t)}
       IN [cache |-> Restrict(c, DOMAIN c \ expired_keys),
           keyorder |-> SelectSeq(ord, LAMBDA k : k \notin expired_keys),
           stats |-> [st EXCEPT !.expirations = @ + Cardinality(expired_keys)],
           last_cleanup |-> lc]

\* mutant of periodic_cleanup: every call sweeps, whenever the last one was
periodic_cleanup_always(c, ord, st, lc, t) ==
  LET expired_keys == {k \in DOMAIN c : is_expired(c[k], t)}
  IN [cache |-> Restrict(c, DOMAIN c \ expired_keys),
      keyorder |-> SelectSeq(ord, LAMBDA k : k \notin expired_keys),
      stats |-> [st EXCEPT !.expirations = @ + Cardinality(expired_keys)],
      last_cleanup |-> t]

\* mutant of periodic_cleanup: the sweep is switched off
periodic_cleanup_off(c, ord, st, lc, t) ==
  [cache |-> c, keyorder |-> ord, stats |-> st, last_cleanup |-> lc]

\* CacheService._periodic_cleanup
periodic_cleanup(c, ord, st, lc, t) ==
  IF t - lc < CleanupInterval
  THEN [cache |-> c, keyorder |-> ord, stats |-> st, last_cleanup |-> lc]
  ELSE LET expired_keys == {k \in DOMAIN c : is_expired(c[k], t)}
       IN [cache |-> Restrict(c, DOMAIN c \ expired_keys),
           keyorder |-> SelectSeq(ord, LAMBDA k : k \notin expired_keys),
           stats |-> [st EXCEPT !.expirations = @ + Cardinality(expired_keys)],
           last_cleanup |-> t]

\* mutant of get: the expired branch returns before the miss is counted
get_expired_uncounted(c, ord, st, key, t) ==
  IF key \in DOMAIN c
  THEN IF ~is_expired(c[key], t)
       THEN [cache |-> [c EXCEPT ![key] = access(@, t)], keyorder |-> ord,
             stats |-> [st EXCEPT !.hits = @ + 1], ret |-> Some(c[key].data)]
       ELSE [cache |-> Restrict(c, DOMAIN c \ {key}),
             keyorder |-> RemoveKey(ord, key),
             stats |-> [st EXCEPT !.expirations = @ + 1],
             ret |-> None]
  ELSE [cache |-> c, keyorder |-> ord,
        stats |-> [st EXCEPT !.misses = @ + 1], ret |-> None]

\* mutant of get: the expired entry is counted but left in the store
get_expired_kept(c, ord, st, key, t) ==
  IF key \in DOMAIN c
  THEN IF ~is_expired(c[key], t)
       THEN [cache |-> [c EXCEPT ![key] = access(@, t)], keyorder |-> ord,
             stats |-> [st EXCEPT !.hits = @ + 1], ret |-> Some(c[key].data)]
       ELSE [cache |-> c, keyorder |-> ord,
             stats |-> [st EXCEPT !.expirations = @ + 1, !.misses = @ + 1],
             ret |-> None]
  ELSE [cache |-> c, keyorder |-> ord,
        stats |-> [st EXCEPT !.misses = @ + 1], ret |-> None]

\* CacheService.get
get(c, ord, st, key, t) ==
  IF key \in DOMAIN c
  THEN IF ~is_expired(c[key], t)
       THEN [cache |-> [c EXCEPT ![key] = access(@, t)], keyorder |-> ord,
             stats |-> [st EXCEPT !.hits = @ + 1], ret |-> Some(c[key].data)]
       ELSE [cache |-> Restrict(c, DOMAIN c \ {key}),
             keyorder |-> RemoveKey(ord, key),
             stats |-> [st EXCEPT !.expirations = @ + 1, !.misses = @ + 1],
             ret |-> None]
  ELSE [cache |-> c, keyorder |-> ord,
        stats |-> [st EXCEPT !.misses = @ + 1], ret |-> None]

\* mutant of resolve_ttl: a ttl_seconds of 0 counts as not given
resolve_ttl_falsy(ttl_seconds, cache_type) ==
  IF ttl_seconds = None \/ ttl_seconds = Some(0)
  THEN IF cache_type \in DOMAIN DEFAULT_TTL
       THEN DEFAULT_TTL[cache_type]
       ELSE DEFAULT_TTL["default"]
  ELSE ttl_seconds[1]

\* the TTL that CacheService.set resolves
resolve_ttl(ttl_seconds, cache_type) ==
  IF ttl_seconds = None
  THEN IF cache_type \in DOMAIN DEFAULT_TTL
       THEN DEFAULT_TTL[cache_type]
       ELSE DEFAULT_TTL["default"]
  ELSE ttl_seconds[1]

\* mutant of store: an entry put over an existing one keeps its read count
store_keeps_count(c, key, entry) ==
  [k \in DOMAIN c \cup {key} |->
     IF k = key
     THEN IF key \in DOMAIN c
          THEN [entry EXCEPT !.access_count = c[key].access_count]
          ELSE entry
     ELSE c[k]]

\* self.cache[key] = CacheEntry(data, ttl_seconds)
store(c, key, entry) ==
  [k \in DOMAIN c \cup {key} |-> IF k = key THEN entry ELSE c[k]]

\* CacheService.set
set(c, ord, st, lc, m, key, data, ttl_seconds, cache_type, t) ==
  LET ttl == resolve_ttl(ttl_seconds, cache_type)
      ev == IF cache_full(Len(ord), m)
            THEN evict_lru(c, ord, st)
            ELSE [cache |-> c, keyorder |-> ord, stats |-> st, evicted |-> None]
      cl == periodic_cleanup(store(ev.cache, key, NewEntry(data, ttl, t)),
                             PutOrder(ev.keyorder, key), ev.stats, lc, t)
  IN [cache |-> cl.cache, keyorder |-> cl.keyorder, stats |-> cl.stats,
      last_cleanup |-> cl.last_cleanup, evicted |-> ev.evicted, ttl |-> ttl]

(* -------------------------------- steps -------------------------------- *)
NoCall == [op |-> "init", key |-> "", data |-> None, ttl |-> None,
           ret |-> None, evicted |-> None, repeat |-> FALSE,
           ttl_seconds |-> None, cache_type |-> ""]

\* the call repeats the call before it
Repeats(op, key) == last.op = op /\ last.key = key

\* counters stop at the bounds of the model
WithinBounds(st) ==
  st.hits + st.misses + st.evictions + st.expirations <= MaxCount

\* history: the distinct keys set one after the other, starting on an empty
\* cache; swept tells whether a periodic cleanup of one of these calls removed
\* an entry.  Any other call ends the run.
NoRun == [keys |-> <<>>, swept |-> FALSE]

RunAfterSet(key, swept) ==
  IF cache = EmptyDict
  THEN [keys |-> <<key>>, swept |-> swept]
  ELSE IF /\ insert_run.keys # <<>>
          /\ Len(insert_run.keys) <= max_size
          /\ key \notin Range(insert_run.keys)
       THEN [keys |-> Append(insert_run.keys, key),
             swept |-> insert_run.swept \/ swept]
       ELSE NoRun

Init ==
  /\ cache = EmptyDict
  /\ keyorder = <<>>
  /\ stats = [hits |-> 0, misses |-> 0, evictions |-> 0, expirations |-> 0]
  /\ last_cleanup = 0
  /\ now = 0
  /\ last = NoCall
  /\ test_times = <<>>
  /\ insert_run = NoRun
  /\ threads = EmptyDict
  /\ cache_instance = NoInstance
  /\ client = NoClient
  /\ \/ test_pc = 0 /\ max_size = ClientMaxSize
     \/ test_pc = 1 /\ max_size = TestMaxSize

\* time passes between two calls: the clock moves on to t
Tick(t) ==
  /\ t \in (IF test_pc = 0 THEN ClientTimes ELSE TestTimes)
  /\ t > now
  /\ now' = t
  /\ last' = [NoCall EXCEPT !.op = "tick"]
  /\ UNCHANGED <<cache, keyorder, max_size, stats, last_cleanup, test_pc,
                 test_times, insert_run, threads, process>>

DoGet(key) ==
  LET r == get(cache, keyorder, stats, key, now)
  IN /\ cache' = r.cache
     /\ keyorder' = r.keyorder
     /\ stats' = r.stats
     /\ last' = [NoCall EXCEPT !.op = "get", !.key = key, !.ret = r.ret,
                               !.repeat = Repeats("get", key)]
     /\ insert_run' = NoRun
     /\ WithinBounds(stats')
     /\ UNCHANGED <<max_size, last_cleanup, now, threads, process>>

DoSet(key, data, ttl_seconds, cache_type) ==
  LET r == set(cache, keyorder, stats, last_cleanup, max_size,
               key, data, ttl_seconds, cache_type, now)
  IN /\ cache' = r.cache
     /\ keyorder' = r.keyorder
     /\ stats' = r.stats
     /\ last_cleanup' = r.last_cleanup
     /\ last' = [NoCall EXCEPT !.op = "set", !.key = key, !.data = Some(data),
                               !.ttl = Some(r.ttl), !.evicted = r.evicted,
                               !.repeat = Repeats("set", key),
                               !.ttl_seconds = ttl_seconds,
                               !.cache_type = cache_type]
     /\ insert_run' = RunAfterSet(key, r.stats.expirations # stats.expirations)
     /\ WithinBounds(stats')
     /\ UNCHANGED <<max_size, now, threads, process>>

\* mutant of DoDelete: reports a removal whether or not the key was there
DoDelete_true(key) ==
  /\ cache' = Restrict(cache, DOMAIN cache \ {key})
  /\ keyorder' = RemoveKey(keyorder, key)
  /\ last' = [NoCall EXCEPT !.op = "delete", !.key = key, !.ret = Some(TRUE),
                            !.repeat = Repeats("delete", key)]
  /\ insert_run' = NoRun
  /\ UNCHANGED <<max_size, stats, last_cleanup, now, threads, process>>

\* CacheService.delete
DoDelete(key) ==
  /\ IF key \in DOMAIN cache
     THEN /\ cache' = Restrict(cache, DOMAIN cache \ {key})
          /\ keyorder' = RemoveKey(keyorder, key)
          /\ last' = [NoCall EXCEPT !.op = "delete", !.key = key,
                                    !.ret = Some(TRUE),
                                    !.repeat = Repeats("delete", key)]
     ELSE /\ last' = [NoCall EXCEPT !.op = "delete", !.key = key,
                                    !.ret = Some(FALSE),
                                    !.repeat = Repeats("delete", key)]
          /\ UNCHANGED <<cache, keyorder>>
  /\ insert_run' = NoRun
  /\ UNCHANGED <<max_size, stats, last_cleanup, now, threads, process>>

\* mutant of DoClear: clearing also zeroes the statistics
DoClear_resets ==
  /\ cache' = EmptyDict
  /\ keyorder' = <<>>
  /\ stats' = [hits |-> 0, misses |-> 0, evictions |-> 0, expirations |-> 0]
  /\ last' = [NoCall EXCEPT !.op = "clear", !.repeat = Repeats("clear", "")]
  /\ insert_run' = NoRun
  /\ UNCHANGED <<max_size, last_cleanup, now, threads, process>>

\* CacheService.clear
DoClear ==
  /\ cache' = EmptyDict
  /\ keyorder' = <<>>
  /\ last' = [NoCall EXCEPT !.op = "clear", !.repeat = Repeats("clear", "")]
  /\ insert_run' = NoRun
  /\ UNCHANGED <<max_size, stats, last_cleanup, now, threads, process>>

(* ------------------- an arbitrary single-threaded client ---------------- *)
Get(key) == test_pc = 0 /\ DoGet(key) /\ UNCHANGED <<test_pc, test_times>>

Set(key, data, ttl_seconds, cache_type) ==
  /\ test_pc = 0
  /\ DoSet(key, data, ttl_seconds, cache_type)
  /\ UNCHANGED <<test_pc, test_times>>

Delete(key) == test_pc = 0 /\ DoDelete(key) /\ UNCHANGED <<test_pc, test_times>>

Clear == test_pc = 0 /\ DoClear /\ UNCHANGED <<test_pc, test_times>>

(* ------------- test_cache_eviction: the statements of the test ---------- *)
TestDone == 6

test_cache_eviction ==
  /\ test_pc \in 1..(TestDone - 1)
  /\ test_pc' = test_pc + 1
  /\ test_times' = Append(test_times, now)
  /\ \/ test_pc = 1 /\ DoSet("key1", 1, None, "default")
     \/ test_pc = 2 /\ DoSet("key2", 1, None, "default")
     \/ test_pc = 3 /\ DoSet("key3", 1, None, "default")
     \/ test_pc = 4 /\ DoGet("key1")
     \/ test_pc = 5 /\ DoSet("key4", 1, None, "default")

Next ==
  \/ \E t \in TestTimes : Tick(t)
  \/ \E k \in ClientKeys : Get(k)
  \/ \E a \in SetArgs : Set(a[1], a[2], a[3], a[4])
  \/ \E k \in ClientKeys : Delete(k)
  \/ Clear
  \/ test_cache_eviction

Spec == Init /\ [][Next]_vars

\* the dict and its iteration order agree
TypeOK ==
  /\ DOMAIN cache = Range(keyorder)
  /\ Len(keyorder) = Cardinality(DOMAIN cache)

(* --------------- statistics and invalidation: the global cache ---------- *)
\* get_cache(): the global instance holds 1000 entries
GlobalMaxSize == 1000

\* the keys of test_cache_types and the patterns they are invalidated by
AdminKeys == {"account:test", "match:test", "league:test"}
Patterns == {"account", "test", "match:test"}
Types == {"account", "match", "league", "unknown"}

\* the clock values of this client: the TTL 0 entry is stored and has expired
AdminTimes == {t \in ClientTimes : t < CleanupInterval}

\* the set calls on the global cache: <<key, data, ttl_seconds, cache_type>>
AdminSetArgs ==
  {<<"account:test", 1, None, "account">>,
   <<"account:test", 2, Some(0), "account">>,
   <<"match:test", 1, None, "match_details">>,
   <<"league:test", 1, None, "league">>}

\* a str as the sequence of its characters
Text(s) ==
  CASE s = "account:test" -> <<"a", "c", "c", "o", "u", "n", "t", ":",
                               "t", "e", "s", "t">>
    [] s = "match:test"   -> <<"m", "a", "t", "c", "h", ":", "t", "e", "s", "t">>
    [] s = "league:test"  -> <<"l", "e", "a", "g", "u", "e", ":",
                               "t", "e", "s", "t">>
    [] s = "account"      -> <<"a", "c", "c", "o", "u", "n", "t">>
    [] s = "match"        -> <<"m", "a", "t", "c", "h">>
    [] s = "league"       -> <<"l", "e", "a", "g", "u", "e">>
    [] s = "test"         -> <<"t", "e", "s", "t">>
    [] s = "unknown"      -> <<"u", "n", "k", "n", "o", "w", "n">>

\* the str of a sequence of characters
Str(cs) == CHOOSE s \in AdminKeys \cup Patterns \cup Types : Text(s) = cs

\* mutant of str_contains: key.startswith(pattern)
str_startswith(pattern, key) ==
  /\ Len(pattern) <= Len(key)
  /\ \A n \in 1..Len(pattern) : key[n] = pattern[n]

\* pattern in key
str_contains(pattern, key) ==
  \E off \in 0..(Len(key) - Len(pattern)) :
    \A n \in 1..Len(pattern) : key[off + n] = pattern[n]

\* key.split(":")[0] if ":" in key else "unknown"
type_of_key(key) ==
  LET cs == Text(key)
      colons == {i \in 1..Len(cs) : cs[i] = ":"}
  IN IF colons # {}
     THEN Str(SubSeq(cs, 1, (CHOOSE i \in colons : \A j \in colons : i <= j) - 1))
     ELSE "unknown"

\* round(n / d, 0) of Python: to the nearest integer, a tie to the even one
Round(n, d) ==
  LET q == n \div d
      r == n % d
  IN IF 2 * r < d THEN q
     ELSE IF 2 * r > d THEN q + 1
     ELSE IF q % 2 = 0 THEN q ELSE q + 1

\* mutant of hit_rate: the share of misses
hit_rate_misses(st) ==
  LET total_requests == st.hits + st.misses
  IN IF total_requests > 0
     THEN Round(st.misses * 100 * 100, total_requests)
     ELSE 0

\* round(hit_rate, 2) of get_stats, in hundredths of a percent
hit_rate(st) ==
  LET total_requests == st.hits + st.misses
  IN IF total_requests > 0
     THEN Round(st.hits * 100 * 100, total_requests)
     ELSE 0

\* CacheService.get_stats; the two percentages are in hundredths of a percent,
\* exc is the exception the call ends with
get_stats(c, ord, st, m, lc) ==
  LET type_counts ==
        [t \in {type_of_key(ord[i]) : i \in 1..Len(ord)} |->
           Cardinality({i \in 1..Len(ord) : type_of_key(ord[i]) = t})]
  IN IF m = 0
     THEN [exc |-> Some("ZeroDivisionError")]
     ELSE [exc |-> None,
           total_entries |-> Len(ord),
           max_size |-> m,
           utilization_percent |-> Round(Len(ord) * 100 * 100, m),
           hits |-> st.hits,
           misses |-> st.misses,
           hit_rate_percent |-> hit_rate(st),
           evictions |-> st.evictions,
           expirations |-> st.expirations,
           entries_by_type |-> type_counts,
           last_cleanup |-> lc]

\* CacheService.get_keys_by_pattern
get_keys_by_pattern(ord, pattern) ==
  SelectSeq(ord, LAMBDA key : str_contains(Text(pattern), Text(key)))

\* CacheService.invalidate_pattern
invalidate_pattern(c, ord, pattern) ==
  LET keys_to_delete == get_keys_by_pattern(ord, pattern)
  IN [cache |-> Restrict(c, DOMAIN c \ Range(keys_to_delete)),
      keyorder |-> SelectSeq(ord, LAMBDA k : k \notin Range(keys_to_delete)),
      ret |-> Len(keys_to_delete)]

InvalidatePattern(pattern) ==
  LET r == invalidate_pattern(cache, keyorder, pattern)
  IN /\ test_pc = 0
     /\ cache' = r.cache
     /\ keyorder' = r.keyorder
     /\ last' = [NoCall EXCEPT !.op = "invalidate_pattern", !.key = pattern,
                               !.ret = Some(r.ret),
                               !.repeat = Repeats("invalidate_pattern", pattern)]
     /\ insert_run' = NoRun
     /\ UNCHANGED <<max_size, stats, last_cleanup, now, test_pc, test_times,
                    threads, process>>

\* mutant of GetStats: reading the statistics starts them again from zero
GetStats_resets ==
  /\ test_pc = 0
  /\ stats' = [hits |-> 0, misses |-> 0, evictions |-> 0, expirations |-> 0]
  /\ last' = [NoCall EXCEPT
                !.op = "get_stats",
                !.ret = Some(get_stats(cache, keyorder, stats, max_size,
                                       last_cleanup)),
                !.repeat = Repeats("get_stats", "")]
  /\ insert_run' = NoRun
  /\ UNCHANGED <<cache, keyorder, max_size, last_cleanup, now, test_pc,
                 test_times, threads, process>>

\* CacheService.get_stats: reads, changes nothing
GetStats ==
  /\ test_pc = 0
  /\ last' = [NoCall EXCEPT
                !.op = "get_stats",
                !.ret = Some(get_stats(cache, keyorder, stats, max_size,
                                       last_cleanup)),
                !.repeat = Repeats("get_stats", "")]
  /\ insert_run' = NoRun
  /\ UNCHANGED <<cache, keyorder, max_size, stats, last_cleanup, now, test_pc,
                 test_times, threads, process>>

\* the global cache after get_cache() has constructed it
AdminInit ==
  /\ cache = EmptyDict
  /\ keyorder = <<>>
  /\ stats = [hits |-> 0, misses |-> 0, evictions |-> 0, expirations |-> 0]
  /\ last_cleanup = 0
  /\ now = 0
  /\ last = NoCall
  /\ test_times = <<>>
  /\ insert_run = NoRun
  /\ test_pc = 0
  /\ max_size = GlobalMaxSize
  /\ cache_instance = NoInstance
  /\ client = NoClient
  /\ threads = EmptyDict

AdminNext ==
  \/ \E t \in AdminTimes : Tick(t)
  \/ \E k \in AdminKeys : Get(k)
  \/ \E a \in AdminSetArgs : Set(a[1], a[2], a[3], a[4])
  \/ \E p \in Patterns : InvalidatePattern(p)
  \/ GetStats
  \/ Clear

AdminSpec == AdminInit /\ [][AdminNext]_vars

(* ------- every public operation on a cache that fills up and sweeps ----- *)
\* the cache holds one key less than the caller uses
ServiceInit ==
  /\ cache = EmptyDict
  /\ keyorder = <<>>
  /\ stats = [hits |-> 0, misses |-> 0, evictions |-> 0, expirations |-> 0]
  /\ last_cleanup = 0
  /\ now = 0
  /\ last = NoCall
  /\ test_times = <<>>
  /\ insert_run = NoRun
  /\ test_pc = 0
  /\ max_size = Cardinality(AdminKeys) - 1
  /\ cache_instance = NoInstance
  /\ client = NoClient
  /\ threads = EmptyDict

ServiceNext ==
  \/ \E t \in ClientTimes : Tick(t)
  \/ \E k \in AdminKeys : Get(k)
  \/ \E a \in AdminSetArgs : Set(a[1], a[2], a[3], a[4])
  \/ \E k \in AdminKeys : Delete(k)
  \/ Clear
  \/ \E p \in Patterns : InvalidatePattern(p)
  \/ GetStats

ServiceSpec == ServiceInit /\ [][ServiceNext]_vars

(* ------ writes only: sets keep coming while the clock moves on ---------- *)
LiveKeys == {"key1", "key2"}

\* the set calls of a caller that never reads: <<key, data, ttl_seconds,
\* cache_type>>, with the shortest TTL of the table, a TTL of 0 and the default
LiveSetArgs ==
  {<<"key1", 1, None, "match_ids">>, <<"key1", 2, Some(0), "default">>,
   <<"key2", 1, None, "default">>}

\* the last clock value of the model
LastTime == CHOOSE t \in TestTimes : \A u \in TestTimes : u <= t

\* time passes between two calls, up to the last clock value
LiveTick(t) ==
  /\ t > now
  /\ now' = t
  /\ last' = [NoCall EXCEPT !.op = "tick"]
  /\ UNCHANGED <<cache, keyorder, max_size, stats, last_cleanup, test_pc,
                 test_times, insert_run, threads, process>>

LiveNext ==
  \/ \E t \in TestTimes : LiveTick(t)
  \/ \E a \in LiveSetArgs : Set(a[1], a[2], a[3], a[4])

\* the clock does not stop and the caller does not stop calling set
LiveSpec ==
  /\ AdminInit
  /\ [][LiveNext]_vars
  /\ WF_vars(\E t \in TestTimes : LiveTick(t))
  /\ WF_vars(\E a \in LiveSetArgs : Set(a[1], a[2], a[3], a[4]))

(* ------------- any caller: construction and every TTL argument --------- *)
\* the max_size arguments of CacheService(max_size), which the constructor
\* takes as they come
CtorSizes == {-1, 0, 1, 2}

ApiKeys == {"key1", "key2"}

\* <<ttl_seconds, cache_type>> of a set: no TTL with each category of the
\* table and with one that is not in it, and a TTL of 0, above 0 and below 0
TtlArgs ==
  {<<None, t>> : t \in DOMAIN DEFAULT_TTL \cup {"match"}}
    \cup {<<Some(0), "account">>, <<Some(1), "default">>,
          <<Some(-1), "default">>}

\* CacheService.__init__: no argument is rejected
Construct(m) ==
  /\ last.op = "start"
  /\ cache' = EmptyDict
  /\ keyorder' = <<>>
  /\ max_size' = m
  /\ stats' = [hits |-> 0, misses |-> 0, evictions |-> 0, expirations |-> 0]
  /\ last_cleanup' = now
  /\ last' = NoCall
  /\ UNCHANGED <<now, test_pc, test_times, insert_run, threads, process>>

\* no CacheService has been constructed yet
ApiInit ==
  /\ cache = EmptyDict
  /\ keyorder = <<>>
  /\ stats = [hits |-> 0, misses |-> 0, evictions |-> 0, expirations |-> 0]
  /\ last_cleanup = 0
  /\ now = 0
  /\ last = [NoCall EXCEPT !.op = "start"]
  /\ test_times = <<>>
  /\ insert_run = NoRun
  /\ test_pc = 0
  /\ max_size = 0
  /\ cache_instance = NoInstance
  /\ client = NoClient
  /\ threads = EmptyDict

\* the calls on the instance once it is constructed
ApiTick(t) == last.op # "start" /\ Tick(t)

ApiSet(key, data, ttl_seconds, cache_type) ==
  last.op # "start" /\ Set(key, data, ttl_seconds, cache_type)

ApiNext ==
  \/ \E m \in CtorSizes : Construct(m)
  \/ \E t \in AdminTimes : ApiTick(t)
  \/ \E k \in ApiKeys : \E a \in TtlArgs : ApiSet(k, 1, a[1], a[2])

ApiSpec == ApiInit /\ [][ApiNext]_vars

(* ------- threads: get and set statement by statement, without a lock ---- *)
\* One step is one access to self.cache, self.stats, self.last_cleanup or the
\* clock.  stats[x] += 1 is a read and a write; a scan of the dict begins and
\* ends in two steps.  A call ends by returning (ret) or by raising (exc).

\* the calls made by all threads together
MaxCalls == 3

ThreadKeys == {"key1", "key2"}
ThreadMaxSize == Cardinality(ThreadKeys) - 1
ThreadTimes == {t \in ClientTimes : t = 0 \/ t = CleanupInterval}

\* the set calls of a thread: <<key, data, ttl_seconds, cache_type>>
ThreadSetArgs ==
  {<<"key1", 2, Some(0), "default">>, <<"key2", 1, None, "default">>}

\* a thread between two calls; op, key, ret and exc are those of its last
\* call, calls and gets count the calls and the get calls it has made
Idle == [pc |-> "idle", op |-> "", key |-> "", data |-> None,
         ttl_seconds |-> 0, entry |-> None, tmp |-> 0, t |-> 0,
         scan |-> <<>>, lru_key |-> "", expired_keys |-> <<>>,
         ret |-> None, exc |-> None, calls |-> 0, gets |-> 0]

RECURSIVE SumOver(_, _)
SumOver(f, S) ==
  IF S = {}
  THEN 0
  ELSE LET x == CHOOSE y \in S : TRUE
       IN f[x] + SumOver(f, S \ {x})

CallsMade == SumOver([t \in DOMAIN threads |-> threads[t].calls], DOMAIN threads)
GetsMade == SumOver([t \in DOMAIN threads |-> threads[t].gets], DOMAIN threads)

\* return v; raise e
Return(th, v) ==
  [Idle EXCEPT !.op = th.op, !.key = th.key, !.ret = v,
               !.calls = th.calls, !.gets = th.gets]

Raise(th, e) ==
  [Idle EXCEPT !.op = th.op, !.key = th.key, !.exc = Some(e),
               !.calls = th.calls, !.gets = th.gets]

\* the thread moves to statement pc
At(t, pc) == t \in DOMAIN threads /\ threads[t].pc = pc
Goto(t, th) == threads' = [threads EXCEPT ![t] = th]

\* mutant of dict_contains: the presence test always succeeds
dict_contains_any(c, key) == TRUE

\* key in self.cache
dict_contains(c, key) == key \in DOMAIN c

\* the object a thread holds is the one the dict holds under the key: entries
\* are told apart by what the constructor gave them
SameObject(c, key, entry) ==
  /\ key \in DOMAIN c
  /\ entry # None
  /\ c[key].created_at = entry[1].created_at
  /\ c[key].data = entry[1].data
  /\ c[key].ttl_seconds = entry[1].ttl_seconds

CallGet(t, key) ==
  /\ At(t, "idle") /\ CallsMade < MaxCalls
  /\ Goto(t, [Idle EXCEPT !.pc = "get_in", !.op = "get", !.key = key,
                          !.calls = threads[t].calls + 1,
                          !.gets = threads[t].gets + 1])
  /\ UNCHANGED <<cache, keyorder, max_size, stats, last_cleanup, now, last,
                 test_pc, test_times, insert_run, process>>

CallSet(t, key, data, ttl_seconds, cache_type) ==
  /\ At(t, "idle") /\ CallsMade < MaxCalls
  /\ Goto(t, [Idle EXCEPT !.pc = "set_len", !.op = "set", !.key = key,
                          !.data = Some(data),
                          !.ttl_seconds = resolve_ttl(ttl_seconds, cache_type),
                          !.calls = threads[t].calls + 1,
                          !.gets = threads[t].gets])
  /\ UNCHANGED <<cache, keyorder, max_size, stats, last_cleanup, now, last,
                 test_pc, test_times, insert_run, process>>

\* get: if key in self.cache
get_in(t) ==
  /\ At(t, "get_in")
  /\ Goto(t, [threads[t] EXCEPT
                !.pc = IF dict_contains(cache, threads[t].key)
                       THEN "get_item" ELSE "miss_read"])
  /\ UNCHANGED <<cache, keyorder, max_size, stats, last_cleanup, now, last,
                 test_pc, test_times, insert_run, process>>

\* get: entry = self.cache[key]
get_item(t) ==
  /\ At(t, "get_item")
  /\ Goto(t, IF threads[t].key \in DOMAIN cache
             THEN [threads[t] EXCEPT !.pc = "get_expired",
                                     !.entry = Some(cache[threads[t].key])]
             ELSE Raise(threads[t], "KeyError"))
  /\ UNCHANGED <<cache, keyorder, max_size, stats, last_cleanup, now, last,
                 test_pc, test_times, insert_run, process>>

\* get: if not entry.is_expired(); t is the clock that is_expired read
get_expired(t) ==
  /\ At(t, "get_expired")
  /\ Goto(t, [threads[t] EXCEPT
                !.pc = IF ~is_expired(threads[t].entry[1], now)
                       THEN "hit_read" ELSE "get_del",
                !.t = now])
  /\ UNCHANGED <<cache, keyorder, max_size, stats, last_cleanup, now, last,
                 test_pc, test_times, insert_run, process>>

\* get: self.stats["hits"] += 1, the read
hit_read(t) ==
  /\ At(t, "hit_read")
  /\ Goto(t, [threads[t] EXCEPT !.pc = "hit_write", !.tmp = stats.hits])
  /\ UNCHANGED <<cache, keyorder, max_size, stats, last_cleanup, now, last,
                 test_pc, test_times, insert_run, process>>

\* get: self.stats["hits"] += 1, the write
hit_write(t) ==
  /\ At(t, "hit_write")
  /\ stats' = [stats EXCEPT !.hits = threads[t].tmp + 1]
  /\ Goto(t, [threads[t] EXCEPT !.pc = "access_read", !.tmp = 0])
  /\ UNCHANGED <<cache, keyorder, max_size, last_cleanup, now, last,
                 test_pc, test_times, insert_run, process>>

\* entry.access(): self.access_count += 1, the read (of the object the thread
\* holds: the count of the dict's entry while it is that object)
access_read(t) ==
  /\ At(t, "access_read")
  /\ Goto(t, [threads[t] EXCEPT
                !.pc = "access_write",
                !.tmp = IF SameObject(cache, threads[t].key, threads[t].entry)
                        THEN cache[threads[t].key].access_count
                        ELSE threads[t].entry[1].access_count])
  /\ UNCHANGED <<cache, keyorder, max_size, stats, last_cleanup, now, last,
                 test_pc, test_times, insert_run, process>>

\* entry.access(): the write of access_count, self.last_accessed =
\* datetime.now(), return self.data
access_write(t) ==
  /\ At(t, "access_write")
  /\ cache' = IF SameObject(cache, threads[t].key, threads[t].entry)
              THEN [cache EXCEPT ![threads[t].key] =
                      [@ EXCEPT !.access_count = threads[t].tmp + 1,
                                !.last_accessed = now]]
              ELSE cache
  /\ Goto(t, Return(threads[t], Some(threads[t].entry[1].data)))
  /\ UNCHANGED <<keyorder, max_size, stats, last_cleanup, now, last,
                 test_pc, test_times, insert_run, process>>

\* get: del self.cache[key]
get_del(t) ==
  /\ At(t, "get_del")
  /\ IF threads[t].key \in DOMAIN cache
     THEN /\ cache' = Restrict(cache, DOMAIN cache \ {threads[t].key})
          /\ keyorder' = RemoveKey(keyorder, threads[t].key)
          /\ Goto(t, [threads[t] EXCEPT !.pc = "expirations_read"])
     ELSE /\ Goto(t, Raise(threads[t], "KeyError"))
          /\ UNCHANGED <<cache, keyorder>>
  /\ UNCHANGED <<max_size, stats, last_cleanup, now, last, test_pc,
                 test_times, insert_run, process>>

\* self.stats["expirations"] += 1, the read (in get and in _periodic_cleanup)
expirations_read(t) ==
  /\ At(t, "expirations_read")
  /\ Goto(t, [threads[t] EXCEPT !.pc = "expirations_write",
                                !.tmp = stats.expirations])
  /\ UNCHANGED <<cache, keyorder, max_size, stats, last_cleanup, now, last,
                 test_pc, test_times, insert_run, process>>

\* self.stats["expirations"] += 1, the write; get goes on to count the miss,
\* _periodic_cleanup to its next expired key
expirations_write(t) ==
  /\ At(t, "expirations_write")
  /\ stats' = [stats EXCEPT !.expirations = threads[t].tmp + 1]
  /\ Goto(t, [threads[t] EXCEPT
                !.pc = IF threads[t].op = "get"
                       THEN "miss_read" ELSE "cleanup_del",
                !.tmp = 0])
  /\ UNCHANGED <<cache, keyorder, max_size, last_cleanup, now, last,
                 test_pc, test_times, insert_run, process>>

\* get: self.stats["misses"] += 1, the read
miss_read(t) ==
  /\ At(t, "miss_read")
  /\ Goto(t, [threads[t] EXCEPT !.pc = "miss_write", !.tmp = stats.misses])
  /\ UNCHANGED <<cache, keyorder, max_size, stats, last_cleanup, now, last,
                 test_pc, test_times, insert_run, process>>

\* get: self.stats["misses"] += 1, the write, and return None
miss_write(t) ==
  /\ At(t, "miss_write")
  /\ stats' = [stats EXCEPT !.misses = threads[t].tmp + 1]
  /\ Goto(t, Return(threads[t], None))
  /\ UNCHANGED <<cache, keyorder, max_size, last_cleanup, now, last,
                 test_pc, test_times, insert_run, process>>

\* set: if len(self.cache) >= self.max_size
set_len(t) ==
  /\ At(t, "set_len")
  /\ Goto(t, [threads[t] EXCEPT
                !.pc = IF cache_full(Len(keyorder), max_size)
                       THEN "evict_empty" ELSE "set_store"])
  /\ UNCHANGED <<cache, keyorder, max_size, stats, last_cleanup, now, last,
                 test_pc, test_times, insert_run, process>>

\* _evict_lru: if not self.cache: return
evict_empty(t) ==
  /\ At(t, "evict_empty")
  /\ Goto(t, [threads[t] EXCEPT
                !.pc = IF keyorder = <<>> THEN "set_store" ELSE "evict_begin"])
  /\ UNCHANGED <<cache, keyorder, max_size, stats, last_cleanup, now, last,
                 test_pc, test_times, insert_run, process>>

\* _evict_lru: min(self.cache.keys(), ...) starts its scan; min() of an empty
\* dict raises
evict_begin(t) ==
  /\ At(t, "evict_begin")
  /\ Goto(t, IF keyorder = <<>>
             THEN Raise(threads[t], "ValueError")
             ELSE [threads[t] EXCEPT !.pc = "evict_end", !.scan = keyorder])
  /\ UNCHANGED <<cache, keyorder, max_size, stats, last_cleanup, now, last,
                 test_pc, test_times, insert_run, process>>

\* _evict_lru: the scan ends; a dict that changed size since it began raises
evict_end(t) ==
  /\ At(t, "evict_end")
  /\ Goto(t, IF Len(keyorder) # Len(threads[t].scan)
             THEN Raise(threads[t], "RuntimeError")
             ELSE [threads[t] EXCEPT !.pc = "evict_del", !.scan = <<>>,
                                     !.lru_key = LruKey(cache, keyorder)])
  /\ UNCHANGED <<cache, keyorder, max_size, stats, last_cleanup, now, last,
                 test_pc, test_times, insert_run, process>>

\* _evict_lru: del self.cache[lru_key]
evict_del(t) ==
  /\ At(t, "evict_del")
  /\ IF threads[t].lru_key \in DOMAIN cache
     THEN /\ cache' = Restrict(cache, DOMAIN cache \ {threads[t].lru_key})
          /\ keyorder' = RemoveKey(keyorder, threads[t].lru_key)
          /\ Goto(t, [threads[t] EXCEPT !.pc = "evictions_read"])
     ELSE /\ Goto(t, Raise(threads[t], "KeyError"))
          /\ UNCHANGED <<cache, keyorder>>
  /\ UNCHANGED <<max_size, stats, last_cleanup, now, last, test_pc,
                 test_times, insert_run, process>>

\* _evict_lru: self.stats["evictions"] += 1, the read
evictions_read(t) ==
  /\ At(t, "evictions_read")
  /\ Goto(t, [threads[t] EXCEPT !.pc = "evictions_write",
                                !.tmp = stats.evictions])
  /\ UNCHANGED <<cache, keyorder, max_size, stats, last_cleanup, now, last,
                 test_pc, test_times, insert_run, process>>

\* _evict_lru: self.stats["evictions"] += 1, the write
evictions_write(t) ==
  /\ At(t, "evictions_write")
  /\ stats' = [stats EXCEPT !.evictions = threads[t].tmp + 1]
  /\ Goto(t, [threads[t] EXCEPT !.pc = "set_store", !.tmp = 0,
                                !.lru_key = ""])
  /\ UNCHANGED <<cache, keyorder, max_size, last_cleanup, now, last,
                 test_pc, test_times, insert_run, process>>

\* set: self.cache[key] = CacheEntry(data, ttl_seconds)
set_store(t) ==
  /\ At(t, "set_store")
  /\ cache' = store(cache, threads[t].key,
                    NewEntry(threads[t].data[1], threads[t].ttl_seconds, now))
  /\ keyorder' = PutOrder(keyorder, threads[t].key)
  /\ Goto(t, [threads[t] EXCEPT !.pc = "cleanup_check"])
  /\ UNCHANGED <<max_size, stats, last_cleanup, now, last, test_pc,
                 test_times, insert_run, process>>

\* _periodic_cleanup: now = datetime.now(); return if the last cleanup is
\* less than 300 seconds ago
cleanup_check(t) ==
  /\ At(t, "cleanup_check")
  /\ Goto(t, IF now - last_cleanup < CleanupInterval
             THEN Return(threads[t], None)
             ELSE [threads[t] EXCEPT !.pc = "cleanup_begin", !.t = now])
  /\ UNCHANGED <<cache, keyorder, max_size, stats, last_cleanup, now, last,
                 test_pc, test_times, insert_run, process>>

\* _periodic_cleanup: the scan of self.cache.items() begins
cleanup_begin(t) ==
  /\ At(t, "cleanup_begin")
  /\ Goto(t, [threads[t] EXCEPT !.pc = "cleanup_end", !.scan = keyorder])
  /\ UNCHANGED <<cache, keyorder, max_size, stats, last_cleanup, now, last,
                 test_pc, test_times, insert_run, process>>

\* _periodic_cleanup: the scan ends with the list of expired keys; a dict
\* that changed size since it began raises
cleanup_end(t) ==
  /\ At(t, "cleanup_end")
  /\ Goto(t, IF Len(keyorder) # Len(threads[t].scan)
             THEN Raise(threads[t], "RuntimeError")
             ELSE [threads[t] EXCEPT
                     !.pc = "cleanup_del", !.scan = <<>>,
                     !.expired_keys =
                        SelectSeq(keyorder,
                                  LAMBDA k : is_expired(cache[k], now))])
  /\ UNCHANGED <<cache, keyorder, max_size, stats, last_cleanup, now, last,
                 test_pc, test_times, insert_run, process>>

\* _periodic_cleanup: del self.cache[key] for the next expired key; after the
\* last one self.last_cleanup = now and set returns
cleanup_del(t) ==
  /\ At(t, "cleanup_del")
  /\ IF threads[t].expired_keys = <<>>
     THEN /\ last_cleanup' = threads[t].t
          /\ Goto(t, Return(threads[t], None))
          /\ UNCHANGED <<cache, keyorder>>
     ELSE LET key == Head(threads[t].expired_keys)
          IN IF key \in DOMAIN cache
             THEN /\ cache' = Restrict(cache, DOMAIN cache \ {key})
                  /\ keyorder' = RemoveKey(keyorder, key)
                  /\ Goto(t, [threads[t] EXCEPT
                                !.pc = "expirations_read",
                                !.expired_keys = Tail(@)])
                  /\ UNCHANGED last_cleanup
             ELSE /\ Goto(t, Raise(threads[t], "KeyError"))
                  /\ UNCHANGED <<cache, keyorder, last_cleanup>>
  /\ UNCHANGED <<max_size, stats, now, last, test_pc, test_times, insert_run, process>>

CallDelete(t, key) ==
  /\ At(t, "idle") /\ CallsMade < MaxCalls
  /\ Goto(t, [Idle EXCEPT !.pc = "delete_in", !.op = "delete", !.key = key,
                          !.calls = threads[t].calls + 1,
                          !.gets = threads[t].gets])
  /\ UNCHANGED <<cache, keyorder, max_size, stats, last_cleanup, now, last,
                 test_pc, test_times, insert_run, process>>

\* delete: if key in self.cache, else return False
delete_in(t) ==
  /\ At(t, "delete_in")
  /\ Goto(t, IF dict_contains(cache, threads[t].key)
             THEN [threads[t] EXCEPT !.pc = "delete_del"]
             ELSE Return(threads[t], Some(FALSE)))
  /\ UNCHANGED <<cache, keyorder, max_size, stats, last_cleanup, now, last,
                 test_pc, test_times, insert_run, process>>

\* delete: del self.cache[key]; return True
delete_del(t) ==
  /\ At(t, "delete_del")
  /\ IF threads[t].key \in DOMAIN cache
     THEN /\ cache' = Restrict(cache, DOMAIN cache \ {threads[t].key})
          /\ keyorder' = RemoveKey(keyorder, threads[t].key)
          /\ Goto(t, Return(threads[t], Some(TRUE)))
     ELSE /\ Goto(t, Raise(threads[t], "KeyError"))
          /\ UNCHANGED <<cache, keyorder>>
  /\ UNCHANGED <<max_size, stats, last_cleanup, now, last, test_pc,
                 test_times, insert_run, process>>

CallClear(t) ==
  /\ At(t, "idle") /\ CallsMade < MaxCalls
  /\ Goto(t, [Idle EXCEPT !.pc = "clear_dict", !.op = "clear",
                          !.calls = threads[t].calls + 1,
                          !.gets = threads[t].gets])
  /\ UNCHANGED <<cache, keyorder, max_size, stats, last_cleanup, now, last,
                 test_pc, test_times, insert_run, process>>

\* clear: self.cache.clear()
clear_dict(t) ==
  /\ At(t, "clear_dict")
  /\ cache' = EmptyDict
  /\ keyorder' = <<>>
  /\ Goto(t, Return(threads[t], None))
  /\ UNCHANGED <<max_size, stats, last_cleanup, now, last, test_pc,
                 test_times, insert_run, process>>

\* the clock moves on while calls are in progress
ThreadTick == \E t \in ThreadTimes : Tick(t)

ThreadStep(t) ==
  \/ \E k \in ThreadKeys : CallGet(t, k)
  \/ \E a \in ThreadSetArgs : CallSet(t, a[1], a[2], a[3], a[4])
  \/ get_in(t) \/ get_item(t) \/ get_expired(t)
  \/ hit_read(t) \/ hit_write(t) \/ access_read(t) \/ access_write(t)
  \/ get_del(t) \/ expirations_read(t) \/ expirations_write(t)
  \/ miss_read(t) \/ miss_write(t)
  \/ set_len(t) \/ evict_empty(t) \/ evict_begin(t) \/ evict_end(t)
  \/ evict_del(t) \/ evictions_read(t) \/ evictions_write(t)
  \/ set_store(t)
  \/ cleanup_check(t) \/ cleanup_begin(t) \/ cleanup_end(t) \/ cleanup_del(t)
  \/ \E k \in ThreadKeys : CallDelete(t, k)
  \/ delete_in(t) \/ delete_del(t)
  \/ CallClear(t) \/ clear_dict(t)

\* one caller; the worker threads of a request's fan-out
MainThread == {1}
Workers == {1, 2}

ThreadNext == ThreadTick \/ \E t \in Workers : ThreadStep(t)

ThreadsInit(T) ==
  /\ cache = EmptyDict
  /\ keyorder = <<>>
  /\ stats = [hits |-> 0, misses |-> 0, evictions |-> 0, expirations |-> 0]
  /\ last_cleanup = 0
  /\ now = 0
  /\ last = NoCall
  /\ test_times = <<>>
  /\ insert_run = NoRun
  /\ test_pc = 0
  /\ max_size = ThreadMaxSize
  /\ threads = [t \in T |-> Idle]
  /\ cache_instance = NoInstance
  /\ client = NoClient

SingleInit == ThreadsInit(MainThread)
SingleSpec == SingleInit /\ [][ThreadNext]_vars

ThreadInit == ThreadsInit(Workers)
ThreadSpec == ThreadInit /\ [][ThreadNext]_vars

(* ----------------- get_cache(): the global instance, lazily ------------- *)
\* the threads that construct a RiotAPIClient, which calls get_cache()
Callers == {1, 2, 3}

CallGetCache(t) ==
  /\ At(t, "idle") /\ CallsMade < MaxCalls
  /\ Goto(t, [Idle EXCEPT !.pc = "gc_none", !.op = "get_cache",
                          !.calls = threads[t].calls + 1,
                          !.gets = threads[t].gets])
  /\ UNCHANGED <<cache, keyorder, max_size, stats, last_cleanup, now, last,
                 test_pc, test_times, insert_run, process>>

\* get_cache: if _cache_instance is None
gc_none(t) ==
  /\ At(t, "gc_none")
  /\ Goto(t, [threads[t] EXCEPT
                !.pc = IF cache_instance.global = None
                       THEN "gc_new" ELSE "gc_return"])
  /\ UNCHANGED <<cache, keyorder, max_size, stats, last_cleanup, now, last,
                 test_pc, test_times, insert_run, process>>

\* get_cache: _cache_instance = CacheService(max_size=1000); instances are
\* numbered as they are constructed
gc_new(t) ==
  /\ At(t, "gc_new")
  /\ cache_instance' =
       [cache_instance EXCEPT !.created = @ + 1,
                              !.global = Some(cache_instance.created + 1)]
  /\ Goto(t, [threads[t] EXCEPT !.pc = "gc_return"])
  /\ UNCHANGED <<cache, keyorder, max_size, stats, last_cleanup, now, last,
                 test_pc, test_times, insert_run, client>>

\* get_cache: return _cache_instance; the caller holds what it returns
gc_return(t) ==
  /\ At(t, "gc_return")
  /\ cache_instance' =
       [cache_instance EXCEPT !.held = @ \cup {cache_instance.global[1]}]
  /\ Goto(t, Return(threads[t], cache_instance.global))
  /\ UNCHANGED <<cache, keyorder, max_size, stats, last_cleanup, now, last,
                 test_pc, test_times, insert_run, client>>

SingletonStep(t) ==
  CallGetCache(t) \/ gc_none(t) \/ gc_new(t) \/ gc_return(t)

SingletonNext == \E t \in Callers : SingletonStep(t)

SingletonInit == ThreadsInit(Callers)
SingletonSpec == SingletonInit /\ [][SingletonNext]_vars

(* ------------- RiotAPIClient: the cache in front of the remote API ------- *)
\* the methods of the client, each with its cache key for one argument, its
\* category, whether it catches the HTTPError of a 404, and what it returns
\* when the response is empty
Methods ==
  {[name |-> "get_account_by_riot_id", key |-> "account:test",
    cache_type |-> "account", catches |-> TRUE, empty_as_list |-> FALSE],
   [name |-> "get_matches_by_puuid", key |-> "match_ids:test",
    cache_type |-> "match_ids", catches |-> FALSE, empty_as_list |-> TRUE],
   [name |-> "get_match_details", key |-> "match_details:test",
    cache_type |-> "match_details", catches |-> TRUE, empty_as_list |-> FALSE]}

MethodOf(name) == CHOOSE m \in Methods : m.name = name

\* the JSON values of a response: 0 is an empty one ({} or []), which Python
\* takes as false; 1 and 2 are two different non-empty ones
EmptyJson == 0
Responses == {EmptyJson, 1, 2}

\* what requests.get and raise_for_status can do in _make_request
Outcomes ==
  {[kind |-> "json", data |-> d] : d \in Responses}
    \cup {[kind |-> k, data |-> EmptyJson] :
            k \in {"timeout", "http_404", "http_500"}}

\* bool(x) of an Optional JSON value
Truthy(x) == x # None /\ x[1] # EmptyJson

\* the method returns ret
ClientReturn(c, ret) == [c EXCEPT !.pc = "idle", !.ret = ret]

\* the method lets the exception through
ClientRaise(c, e) == [c EXCEPT !.pc = "idle", !.exc = Some(e)]

\* mutant of ClientCall: the lookup is made whatever use_cache says
ClientCall_lookup(name, use_cache) ==
  /\ client.pc = "idle"
  /\ client.calls < MaxCalls
  /\ client' = [NoClient EXCEPT
                  !.calls = client.calls + 1,
                  !.pc = "lookup",
                  !.method = name, !.key = MethodOf(name).key,
                  !.cache_type = MethodOf(name).cache_type,
                  !.use_cache = use_cache]
  /\ last' = [NoCall EXCEPT !.op = name]
  /\ UNCHANGED <<cache, keyorder, max_size, stats, last_cleanup, now, test_pc,
                 test_times, insert_run, threads, cache_instance>>

\* a method is called: cache_key is built, and 'if use_cache and self.cache'
\* chooses between the lookup and the request
ClientCall(name, use_cache) ==
  /\ client.pc = "idle"
  /\ client.calls < MaxCalls
  /\ client' = [NoClient EXCEPT
                  !.calls = client.calls + 1,
                  !.pc = IF use_cache THEN "lookup" ELSE "request",
                  !.method = name, !.key = MethodOf(name).key,
                  !.cache_type = MethodOf(name).cache_type,
                  !.use_cache = use_cache]
  /\ last' = [NoCall EXCEPT !.op = name]
  /\ UNCHANGED <<cache, keyorder, max_size, stats, last_cleanup, now, test_pc,
                 test_times, insert_run, threads, cache_instance>>

\* cached_data = self.cache.get(cache_key); if cached_data: return cached_data
ClientLookup ==
  LET r == get(cache, keyorder, stats, client.key, now)
      c == [client EXCEPT !.cached_data = r.ret, !.log = Append(@, "get")]
  IN /\ client.pc = "lookup"
     /\ cache' = r.cache
     /\ keyorder' = r.keyorder
     /\ stats' = r.stats
     /\ WithinBounds(stats')
     /\ client' = IF Truthy(r.ret)
                  THEN ClientReturn(c, r.ret)
                  ELSE [c EXCEPT !.pc = "request"]
     /\ last' = [NoCall EXCEPT !.op = "get", !.key = client.key,
                               !.ret = r.ret]
     /\ insert_run' = NoRun
     /\ UNCHANGED <<max_size, last_cleanup, now, test_pc, test_times, threads,
                    cache_instance>>

\* data = self._make_request(url): the response, None after a timeout, or an
\* HTTPError, which the method catches when it is a 404 and it has a handler
ClientRequest(o) ==
  LET c == [client EXCEPT !.log = Append(@, "request")]
      m == MethodOf(client.method)
  IN /\ client.pc = "request"
     /\ client' =
          CASE o.kind = "json" ->
                 [c EXCEPT !.pc = "store", !.data = Some(o.data)]
            [] o.kind = "timeout" ->
                 [c EXCEPT !.pc = "store", !.data = None]
            [] o.kind = "http_404" ->
                 IF m.catches THEN ClientReturn(c, None)
                              ELSE ClientRaise(c, "HTTPError")
            [] o.kind = "http_500" -> ClientRaise(c, "HTTPError")
     /\ last' = [NoCall EXCEPT !.op = "request", !.key = client.key]
     /\ UNCHANGED <<cache, keyorder, max_size, stats, last_cleanup, now,
                    test_pc, test_times, insert_run, threads, cache_instance>>

\* what the method returns after the request: data, or [] for no match ids
ClientResult(c) ==
  IF MethodOf(c.method).empty_as_list /\ ~Truthy(c.data)
  THEN Some(EmptyJson)
  ELSE c.data

\* mutant of ClientStore: the response is stored whatever it is
ClientStore_always ==
  LET d == IF client.data = None THEN EmptyJson ELSE client.data[1]
      r == set(cache, keyorder, stats, last_cleanup, max_size, client.key,
               d, None, client.cache_type, now)
      c == [client EXCEPT !.log = Append(@, "set"),
                          !.over = Some(client.key \in DOMAIN cache)]
  IN /\ client.pc = "store"
     /\ cache' = r.cache
     /\ keyorder' = r.keyorder
     /\ stats' = r.stats
     /\ last_cleanup' = r.last_cleanup
     /\ WithinBounds(stats')
     /\ client' = ClientReturn(c, ClientResult(c))
     /\ last' = [NoCall EXCEPT !.op = "set", !.key = client.key,
                               !.data = Some(d), !.ttl = Some(r.ttl),
                               !.evicted = r.evicted,
                               !.cache_type = client.cache_type]
     /\ insert_run' = NoRun
     /\ UNCHANGED <<max_size, now, test_pc, test_times, threads,
                    cache_instance>>

\* if data and self.cache: self.cache.set(cache_key, data, cache_type=...);
\* return data
ClientStore ==
  /\ client.pc = "store"
  /\ IF Truthy(client.data)
     THEN LET r == set(cache, keyorder, stats, last_cleanup, max_size,
                       client.key, client.data[1], None, client.cache_type,
                       now)
              c == [client EXCEPT !.log = Append(@, "set"),
                                  !.over = Some(client.key \in DOMAIN cache)]
          IN /\ cache' = r.cache
             /\ keyorder' = r.keyorder
             /\ stats' = r.stats
             /\ last_cleanup' = r.last_cleanup
             /\ WithinBounds(stats')
             /\ client' = ClientReturn(c, ClientResult(c))
             /\ last' = [NoCall EXCEPT !.op = "set", !.key = client.key,
                                       !.data = client.data,
                                       !.ttl = Some(r.ttl),
                                       !.evicted = r.evicted,
                                       !.cache_type = client.cache_type]
     ELSE /\ client' = ClientReturn(client, ClientResult(client))
          /\ last' = [NoCall EXCEPT !.op = "return", !.key = client.key]
          /\ UNCHANGED <<cache, keyorder, stats, last_cleanup>>
  /\ insert_run' = NoRun
  /\ UNCHANGED <<max_size, now, test_pc, test_times, threads, cache_instance>>

\* the clock values of the client: a match_ids entry stored at 0 is still
\* live at its TTL and has expired one second later
ClientClock == {0, DEFAULT_TTL["match_ids"], DEFAULT_TTL["match_ids"] + 1}

\* time passes between two calls and while a call waits for the response
ClientTick(t) ==
  /\ t > now
  /\ now' = t
  /\ last' = [NoCall EXCEPT !.op = "tick"]
  /\ UNCHANGED <<cache, keyorder, max_size, stats, last_cleanup, test_pc,
                 test_times, insert_run, threads, process>>

ClientNext ==
  \/ \E t \in ClientClock : ClientTick(t)
  \/ \E m \in Methods : \E u \in BOOLEAN : ClientCall(m.name, u)
  \/ ClientLookup
  \/ \E o \in Outcomes : ClientRequest(o)
  \/ ClientStore

\* self.cache = get_cache(): the client works on the global cache
ClientSpec == AdminInit /\ [][ClientNext]_vars

(* ================================ claims ================================ *)
\* what the statements below call a live entry: present and not expired; the
\* expiry test is written out, independently of the model of is_expired
Present(c, k) == k \in DOMAIN c
Live(c, k, t) == k \in DOMAIN c /\ ~(t > c[k].expires_at)
GetStep == last'.op = "get"
SetStep == last'.op = "set"

\* C1: get never returns the value of an entry whose expires_at is strictly
\* earlier than the current time: whenever a get returns a value, the entry
\* is in the store, now is not past its expires_at, and the value is its data.
C1_NoExpiredValue ==
  [][(GetStep /\ last'.ret # None) =>
       /\ Present(cache, last'.key)
       /\ ~(cache[last'.key].expires_at < now)
       /\ last'.ret = Some(cache[last'.key].data)]_vars

\* a get has found an expired entry in the store and returned None (no sweep
\* has run, so the expiration was counted by the get)
C1_Witness ==
  /\ last.op = "get" /\ last.ret = None
  /\ stats.expirations = 1 /\ stats.misses = 1 /\ last_cleanup = 0

\* C2: the number of stored entries is at most max_size after every call.
C2_Capacity == Cardinality(DOMAIN cache) <= max_size

\* a set on a full cache has evicted and left the cache full
C2_Witness ==
  /\ last.op = "set" /\ last.evicted # None
  /\ Cardinality(DOMAIN cache) = max_size

\* C3: a get that directly follows set(key, v, ttl = t), with no clock advance
\* in between, returns v, also when the set evicted or swept; and a get at a
\* time more than t seconds after the set that stored the entry returns None.
C3_TTLCorrect ==
  [][GetStep =>
       /\ (last.op = "set" /\ last.key = last'.key) => last'.ret = last.data
       /\ (Present(cache, last'.key) /\
             now - cache[last'.key].created_at > cache[last'.key].ttl_seconds)
            => last'.ret = None]_vars

\* a get has returned the value of the set before it, a set with ttl 0 that
\* overwrote another entry and ran the periodic cleanup
C3_Witness ==
  /\ last.op = "get" /\ last.key = "key1" /\ last.ret = Some(2)
  /\ last_cleanup = now /\ now >= CleanupInterval
  /\ cache["key1"].ttl_seconds = 0

\* C4: every get changes exactly one of hits and misses, by exactly 1: hits
\* for a present, unexpired key, misses for an absent or expired key.
C4_HitMiss ==
  [][GetStep =>
       IF Live(cache, last'.key, now)
       THEN stats'.hits = stats.hits + 1 /\ stats'.misses = stats.misses
       ELSE stats'.misses = stats.misses + 1 /\ stats'.hits = stats.hits]_vars

\* a get has missed and a later get has hit, one count each
C4_Witness ==
  /\ last.op = "get" /\ last.ret # None
  /\ stats.hits = 1 /\ stats.misses = 1

\* the victim of an eviction is an entry of the store before the call whose
\* last_accessed is minimal, it is removed, and it is counted
EvictsLeastRecent ==
  SetStep =>
    /\ last'.evicted # None <=> stats'.evictions # stats.evictions
    /\ last'.evicted # None =>
         LET victim == last'.evicted[1]
         IN /\ Present(cache, victim)
            /\ \A k \in DOMAIN cache :
                 cache[victim].last_accessed <= cache[k].last_accessed
            /\ victim # last'.key => ~Present(cache', victim)

\* the five calls of the test were made at strictly increasing times
Increasing(times) == \A i \in 1..(Len(times) - 1) : times[i] < times[i + 1]

\* the step that completes set(key1), set(key2), set(key3), get(key1),
\* set(key4) on the cache of max_size 3
ScenarioStep == test_pc = 5 /\ test_pc' = TestDone /\ Increasing(test_times')

ScenarioResult ==
  /\ ~Present(cache', "key2")
  /\ Live(cache', "key1", now') /\ Live(cache', "key4", now')

\* C5 as stated: an eviction removes an entry with minimal last_accessed, and
\* after set(a), set(b), set(c), get(a), set(d) at strictly increasing times
\* on max_size 3, b is absent while a and d are live.
C5_Original ==
  [][EvictsLeastRecent /\ (ScenarioStep => ScenarioResult)]_vars

\* C5 amended: the same, the five calls all made before the entry of a has
\* expired (set(d) no later than DEFAULT_TTL["default"] after set(a)).
C5_LruVictim ==
  [][/\ EvictsLeastRecent
     /\ (ScenarioStep /\
           test_times'[5] <= test_times'[1] + DEFAULT_TTL["default"])
          => ScenarioResult]_vars

\* the test has run to its end at increasing times within the TTL of key1,
\* and set(key4) has evicted key2
C5_Witness ==
  /\ test_pc = TestDone /\ Increasing(test_times)
  /\ test_times[5] <= test_times[1] + DEFAULT_TTL["default"]
  /\ last.op = "set" /\ last.evicted = Some("key2")

\* max_size + 1 distinct keys have been set, one after the other, starting on
\* an empty cache
FullRun == Len(insert_run.keys) = max_size + 1

OthersKept == DOMAIN cache = Range(insert_run.keys) \ {insert_run.keys[1]}

\* C6 as stated: inserting max_size + 1 distinct keys with no get in between
\* evicts the first-inserted key and no other: afterwards the first key is
\* absent and the other max_size keys are present.
C6_Original == FullRun => OthersKept

\* C6 amended: the same, provided no periodic cleanup of these set calls
\* removed an entry (none of the inserted entries had expired by then); the
\* last set then evicts the first-inserted key, which is absent afterwards,
\* and the other max_size keys are present.
C6_FirstInsertedEvicted ==
  (FullRun /\ ~insert_run.swept) =>
    /\ OthersKept
    /\ last.op = "set" => last.evicted = Some(insert_run.keys[1])

\* the run is complete, all at one clock value, and its last set has evicted
C6_Witness ==
  /\ FullRun /\ ~insert_run.swept
  /\ last.op = "set" /\ last.evicted # None
  /\ \A k \in DOMAIN cache : cache[k].created_at = now

\* C7: set on a key that is present in a cache holding max_size entries evicts
\* nothing: every other key stays present and evictions is unchanged.
C7_OverwriteEvictsNothing ==
  [][(SetStep /\ Present(cache, last'.key) /\
        Cardinality(DOMAIN cache) = max_size) =>
       /\ stats'.evictions = stats.evictions
       /\ last'.evicted = None
       /\ \A k \in DOMAIN cache : Present(cache', k)]_vars

\* C8: one set increases evictions by exactly 1 when it inserts a new key into
\* a cache holding max_size entries, by 0 when the cache holds fewer, and
\* never by more than 1.
C8_OneEviction ==
  [][SetStep =>
       LET n == Cardinality(DOMAIN cache)
       IN /\ (~Present(cache, last'.key) /\ n = max_size)
               => stats'.evictions = stats.evictions + 1
          /\ n < max_size => stats'.evictions = stats.evictions
          /\ stats'.evictions <= stats.evictions + 1]_vars

\* the test has set key4, a new key, on its full cache: one eviction
C8_Witness ==
  /\ test_pc = TestDone /\ last.op = "set" /\ last.key = "key4"
  /\ stats.evictions = 1 /\ Cardinality(DOMAIN cache) = max_size

\* C9: a successful get changes only the entry's access_count (by +1) and
\* last_accessed; its data, created_at, expires_at and every other entry are
\* unchanged, and it still expires ttl seconds after created_at.
C9_NoSliding ==
  [][(GetStep /\ last'.ret # None) =>
       LET k == last'.key
       IN /\ DOMAIN cache' = DOMAIN cache /\ keyorder' = keyorder
          /\ \A j \in DOMAIN cache \ {k} : cache'[j] = cache[j]
          /\ cache'[k].data = cache[k].data
          /\ cache'[k].created_at = cache[k].created_at
          /\ cache'[k].expires_at = cache[k].expires_at
          /\ cache'[k].access_count = cache[k].access_count + 1
          /\ cache'[k].last_accessed = now
          /\ cache'[k].expires_at =
               cache'[k].created_at + cache'[k].ttl_seconds]_vars

\* an entry has been read twice, the second time after the clock advanced
C9_Witness ==
  /\ last.op = "get" /\ last.ret # None
  /\ cache[last.key].access_count = 2
  /\ cache[last.key].last_accessed > cache[last.key].created_at

\* C10: a get on a key whose stored entry is expired returns None, removes the
\* entry and adds exactly 1 to expirations; a get repeated on that key adds
\* nothing to expirations.
C10_LazyExpiration ==
  [][GetStep =>
       LET k == last'.key
       IN /\ (Present(cache, k) /\ now > cache[k].expires_at) =>
               /\ last'.ret = None
               /\ ~Present(cache', k)
               /\ stats'.expirations = stats.expirations + 1
          /\ (last.op = "get" /\ last.key = k /\ last.ret = None) =>
               /\ last'.ret = None
               /\ stats'.expirations = stats.expirations]_vars

\* a get has removed an expired entry and the get repeated on the key has
\* left expirations at 1 (no sweep has run)
C10_Witness ==
  /\ last.op = "get" /\ last.repeat /\ last.ret = None
  /\ stats.expirations = 1 /\ stats.misses = 2 /\ stats.hits = 0
  /\ last_cleanup = 0

\* C11: a set called 300 seconds or more after last_cleanup (so also one called
\* more than 300 seconds after it) leaves no entry in the store that is expired
\* at the time of the call, sets last_cleanup to that time, and adds to
\* expirations exactly the number of entries its sweep removed: the entries
\* expired before the call, less the one the call evicted and the one it
\* overwrote.
C11_Sweep ==
  [][(SetStep /\ now - last_cleanup >= CleanupInterval) =>
       /\ \A k \in DOMAIN cache' : ~(now > cache'[k].expires_at)
       /\ last_cleanup' = now
       /\ stats'.expirations - stats.expirations =
            Cardinality({k \in DOMAIN cache :
                           /\ now > cache[k].expires_at
                           /\ k # last'.key
                           /\ Some(k) # last'.evicted})]_vars

\* a set more than 300 seconds after the last sweep has swept again and its
\* sweep removed an expired entry (no get has missed, so the expiration was
\* counted by the sweep)
C11_Witness ==
  /\ last.op = "set" /\ last_cleanup = now
  /\ now > 2 * CleanupInterval
  /\ stats.expirations = 1 /\ stats.misses = 0

\* C13: clear leaves the store empty and the four counters as they were, and a
\* clear that follows a clear changes nothing: store, counters, max_size and
\* last_cleanup stay as the first clear left them.
ClearStep == last'.op = "clear"

C13_ClearIdempotent ==
  [][ClearStep =>
       /\ DOMAIN cache' = {} /\ keyorder' = <<>>
       /\ stats' = stats
       /\ last.op = "clear" =>
            /\ cache' = cache /\ keyorder' = keyorder
            /\ max_size' = max_size /\ last_cleanup' = last_cleanup]_vars

\* a clear has followed a clear on a cache that had counted a hit and a miss
C13_Witness ==
  /\ last.op = "clear" /\ last.repeat
  /\ stats.hits = 1 /\ stats.misses = 1

\* C14: delete returns True exactly when the key was in the store before the
\* call; after it the key is absent, every other entry and the four counters
\* are as before, and a delete that repeats a delete of the key returns False.
DeleteStep == last'.op = "delete"

C14_Delete ==
  [][DeleteStep =>
       LET k == last'.key
       IN /\ last'.ret = Some(Present(cache, k))
          /\ ~Present(cache', k)
          /\ DOMAIN cache' = DOMAIN cache \ {k}
          /\ \A j \in DOMAIN cache' : cache'[j] = cache[j]
          /\ stats' = stats
          /\ (last.op = "delete" /\ last.key = k) =>
               last'.ret = Some(FALSE)]_vars

\* a delete has removed one of two stored entries, and the delete repeated on
\* the key has returned False and left the other entry
C14_Witness ==
  /\ last.op = "delete" /\ last.repeat /\ last.ret = Some(FALSE)
  /\ Cardinality(DOMAIN cache) = 1
  /\ stats.hits = 1

\* the key begins with the pattern; the pattern occurs in the key: the key is
\* some text, the pattern, some text
StartsWith(p, k) ==
  Len(Text(p)) <= Len(Text(k)) /\ SubSeq(Text(k), 1, Len(Text(p))) = Text(p)

Contains(p, k) ==
  \E i \in 0..Len(Text(k)) : \E j \in (i + 1)..(Len(Text(k)) + 1) :
    SubSeq(Text(k), 1, i) \o Text(p) \o SubSeq(Text(k), j, Len(Text(k)))
      = Text(k)

InvalidateStep == last'.op = "invalidate_pattern"

StatsReturned == last.ret[1]

\* C16: the hit rate get_stats reports is 0 when hits + misses = 0 and
\* otherwise hits * 100 / (hits + misses) rounded to two decimals (here in
\* hundredths of a percent: within half a hundredth of the quotient); it lies
\* between 0 and 100, and the call does not end with a division by zero.
C16_HitRate ==
  last.op = "get_stats" =>
    LET total == stats.hits + stats.misses
        rate == StatsReturned.hit_rate_percent
    IN /\ StatsReturned.exc = None
       /\ total = 0 => rate = 0
       /\ total > 0 =>
            /\ 2 * (rate * total - stats.hits * 10000) <= total
            /\ 2 * (stats.hits * 10000 - rate * total) <= total
       /\ 0 <= rate /\ rate <= 100 * 100

\* get_stats has reported a hit rate of 33.33 percent: one hit in three gets
C16_Witness ==
  /\ last.op = "get_stats"
  /\ stats.hits = 1 /\ stats.misses = 2
  /\ StatsReturned.hit_rate_percent = 3333

\* C17 as stated: entries_by_type of get_stats maps each category, the text of
\* a key before its first ":", to the number of stored, unexpired entries
\* whose key carries it; an expired entry that is still stored is not counted.
CountedAs(t) ==
  IF t \in DOMAIN StatsReturned.entries_by_type
  THEN StatsReturned.entries_by_type[t]
  ELSE 0

C17_LiveByType ==
  last.op = "get_stats" =>
    \A t \in Types \ {"unknown"} :
      CountedAs(t) =
        Cardinality({k \in DOMAIN cache :
                       /\ ~(now > cache[k].expires_at)
                       /\ \E i \in 1..Len(Text(k)) :
                            /\ Text(k)[i] = ":"
                            /\ SubSeq(Text(k), 1, i - 1) = Text(t)})

\* C15: the entry a set leaves in the store has expires_at - created_at equal
\* to ttl_seconds when one is given, 0 included, and otherwise to the table
\* value of cache_type: account 86400, summoner 3600, match_ids 300,
\* match_details 3600, league 1800, analysis 1800, default 600, and 600 for a
\* cache_type that is not in the table.
TableTTL(t) ==
  CASE t = "account" -> 86400
    [] t = "summoner" -> 3600
    [] t = "match_ids" -> 300
    [] t = "match_details" -> 3600
    [] t = "league" -> 1800
    [] t = "analysis" -> 1800
    [] OTHER -> 600

C15_ResolvedTTL ==
  [][SetStep =>
       LET k == last'.key
       IN /\ Present(cache', k)
          /\ cache'[k].created_at = now
          /\ cache'[k].expires_at - cache'[k].created_at =
               IF last'.ttl_seconds # None
               THEN last'.ttl_seconds[1]
               ELSE TableTTL(last'.cache_type)]_vars

\* a set with ttl_seconds = 0 and cache_type "account" has stored an entry that
\* expires at its creation time, next to an entry of a cache_type that is not
\* in the table
C15_Witness ==
  /\ last.op = "set" /\ last.ttl_seconds = Some(0)
  /\ last.cache_type = "account"
  /\ cache[last.key].expires_at = cache[last.key].created_at
  /\ \E k \in DOMAIN cache : cache[k].ttl_seconds = 600 /\ k # last.key

\* C18: no CacheService with max_size <= 0 is ever constructed: the
\* constructor fails on such an argument.
C18_FailFast == last.op # "start" => max_size > 0

\* thread t returns from its call or leaves it by an exception in this step
Completes(t) == threads[t].pc # "idle" /\ threads'[t].pc = "idle"

\* C19: with a single caller no call of get or set ends with an exception,
\* whether the key was never stored, is expired, or the cache is full; and a
\* get returns a value only for a key that is in the store with an entry that
\* was not expired when get tested it: a missing or expired key gives None.
C19_NoRaise ==
  [][\A t \in DOMAIN threads :
       Completes(t) =>
         /\ threads'[t].exc = None
         /\ (threads[t].op = "get" /\ threads'[t].ret # None) =>
              /\ Present(cache, threads[t].key)
              /\ ~(threads[t].t > cache[threads[t].key].expires_at)
              /\ threads'[t].ret = Some(cache[threads[t].key].data)]_vars

\* the caller has set a key with TTL 0, has set the other key on the full
\* cache 300 seconds later, which evicted the first, and has got None for the
\* first key
C19_Witness ==
  /\ threads[1].pc = "idle" /\ threads[1].op = "get"
  /\ threads[1].ret = None /\ threads[1].exc = None
  /\ stats.evictions = 1 /\ stats.misses = 1
  /\ now = CleanupInterval /\ last_cleanup = now

\* C20: when all the get calls that worker threads made concurrently have
\* completed, hits + misses has grown by exactly the number of those calls.
C20_NoLostUpdate ==
  (\A t \in DOMAIN threads : threads[t].pc = "idle") =>
    stats.hits + stats.misses = GetsMade

\* every thread is between two calls
AllIdle == \A t \in DOMAIN threads : threads[t].pc = "idle"

\* C21: with a clear, a delete or an eviction running in one thread while a
\* get or a set is in progress in another, no call of any thread ends with an
\* exception: every get returns a value or None and every set returns.
C21_NoRaiseConcurrent == \A t \in DOMAIN threads : threads[t].exc = None

\* C22: once the set calls that worker threads made concurrently have all
\* returned, the store holds at most max_size entries.
C22_CapacityConcurrent == AllIdle => Cardinality(DOMAIN cache) <= max_size

\* C23: all calls of get_cache() return one and the same CacheService
\* instance, also when the first calls are made by different threads at the
\* same time: the callers never hold two distinct instances.
C23_OneInstance == Cardinality(cache_instance.held) <= 1

\* C24: across get, set, delete, clear, invalidate_pattern and get_stats no
\* statistics counter (hits, misses, evictions, expirations) ever decreases.
C24_CountersMonotone ==
  [][\A f \in DOMAIN stats : stats'[f] >= stats[f]]_vars

\* an invalidation and a clear have run on a cache whose counters all moved
C24_Witness ==
  /\ last.op \in {"clear", "invalidate_pattern", "delete", "get_stats"}
  /\ stats.hits > 0 /\ stats.evictions > 0 /\ stats.expirations > 0

\* C25: every entry in the store has expires_at >= created_at, whatever
\* ttl_seconds the set that stored it was given.
C25_ExpiresAfterCreated ==
  \A k \in DOMAIN cache : cache[k].expires_at >= cache[k].created_at

\* C26: a key that is not in the store stays out of it until a set of that
\* key, and a get of it meanwhile returns None; the entry a set puts in the
\* store, over a removed or over a live one, is new: access_count 0 and
\* last_accessed = created_at = the time of the set, with the data and the
\* TTL of this set.
C26_FreshAfterRemoval ==
  [][(\A k \in AdminKeys :
        (~Present(cache, k) /\ Present(cache', k))
          => (SetStep /\ last'.key = k))
     /\ ((GetStep /\ ~Present(cache, last'.key))
          => (last'.ret = None /\ ~Present(cache', last'.key)))
     /\ ((SetStep /\ Present(cache', last'.key))
          => LET e == cache'[last'.key]
             IN /\ e.access_count = 0
                /\ e.last_accessed = now'
                /\ e.created_at = now'
                /\ e.expires_at = now' + last'.ttl[1]
                /\ Some(e.data) = last'.data)]_vars

\* only the TTL 0 entry of account:test can expire at these times, so it was
\* removed by expiration before the set that has just stored it again; the
\* set before that removal had data 2, this one has data 1
C26_Witness ==
  /\ last.op = "set" /\ last.key = "account:test" /\ last.data = Some(1)
  /\ stats.expirations > 0 /\ stats.hits > 0
  /\ Present(cache, "account:test")
  /\ cache["account:test"].access_count = 0
  /\ cache["account:test"].created_at = now

\* C27: with no get at all, an entry that has expired is removed from the
\* store by a later set, as long as sets keep being called while the clock
\* moves on.  The entry is the one created at c under key k; a cleanup is
\* due at last_cleanup + 300 s, which the clock of the model still reaches.
C27_ReclaimedWithoutGet ==
  \A k \in LiveKeys : \A c \in TestTimes :
    (/\ Present(cache, k)
     /\ cache[k].created_at = c
     /\ is_expired(cache[k], now)
     /\ last_cleanup + CleanupInterval <= LastTime)
      ~> ~(Present(cache, k) /\ cache[k].created_at = c)

\* a set of key2 has swept the expired entry of key1, which no get ever read
C27_Witness ==
  /\ last.op = "set" /\ last.key = "key2"
  /\ stats.expirations > 0 /\ stats.hits = 0 /\ stats.misses = 0
  /\ ~Present(cache, "key1")
  /\ last_cleanup = now

\* C28: a set called less than 300 s after last_cleanup does not sweep: it
\* leaves last_cleanup and the expirations counter as they were, and every
\* entry under another key, expired or not, stays in the store as it was
\* unless it is the entry the set evicted.
C28_NoSweepWithinInterval ==
  [][(SetStep /\ now - last_cleanup < CleanupInterval)
       => /\ last_cleanup' = last_cleanup
          /\ stats'.expirations = stats.expirations
          /\ \A k \in DOMAIN cache \ {last'.key} :
               Some(k) # last'.evicted
                 => (Present(cache', k) /\ cache'[k] = cache[k])]_vars

\* a set within the interval has left an expired entry under another key
C28_Witness ==
  /\ last.op = "set"
  /\ now - last_cleanup < CleanupInterval
  /\ now > last_cleanup
  /\ \E k \in DOMAIN cache : k # last.key /\ is_expired(cache[k], now)

\* the step adds the event e to what the call of the client has done
Logged(e) == client'.log = Append(client.log, e)

\* C29: in a call with the cache enabled, the remote request is made only
\* after cache.get returned nothing usable; cache.set is called only after
\* the request returned non-empty data, with that data and the category of
\* the method; a hit returns the cached value with no request; and from the
\* request on, a call whose fetch failed, was empty or found nothing leaves
\* the entries of the cache as they were.
C29_FetchOnMissStoreOnData ==
  [][/\ (Logged("request") /\ client.use_cache)
          => (client.log = <<"get">> /\ ~Truthy(client.cached_data))
     /\ Logged("set")
          => (/\ client.log # <<>>
              /\ client.log[Len(client.log)] = "request"
              /\ Truthy(client.data)
              /\ Present(cache', client.key)
              /\ cache'[client.key].data = client.data[1]
              /\ cache'[client.key].expires_at
                   = now + TableTTL(MethodOf(client.method).cache_type))
     /\ (Logged("get") /\ Truthy(client'.cached_data))
          => (/\ client'.pc = "idle"
              /\ client'.ret = client'.cached_data
              /\ client'.log = <<"get">>)
     /\ (client.pc \in {"request", "store"} /\ ~Truthy(client'.data))
          => (cache' = cache /\ keyorder' = keyorder /\ ~Logged("set"))]_vars

\* a call has returned a cached value after the lookup alone
C29_Witness ==
  /\ client.pc = "idle"
  /\ client.use_cache
  /\ client.log = <<"get">>
  /\ Truthy(client.ret)
  /\ stats.hits > 0

\* C30: a call made with use_cache=False makes no cache.get: no step of it
\* changes hits or misses, and what it returns comes from the request, never
\* from the cache; non-empty fetched data is still stored with cache.set,
\* which replaces an entry already under the key by a new one with the TTL of
\* the category counted from now.
C30_BypassLookup ==
  [][(client.pc # "idle" /\ ~client.use_cache)
       => /\ stats'.hits = stats.hits
          /\ stats'.misses = stats.misses
          /\ "get" \notin Range(client'.log)
          /\ client'.cached_data = None
          /\ (client.pc = "store" /\ client'.pc = "idle"
                /\ Truthy(client.data))
               => (/\ Logged("set")
                   /\ client'.ret = client.data
                   /\ Present(cache', client.key)
                   /\ cache'[client.key].data = client.data[1]
                   /\ cache'[client.key].created_at = now
                   /\ cache'[client.key].access_count = 0
                   /\ cache'[client.key].expires_at
                        = now + TableTTL(client.cache_type))
          /\ (client'.pc = "idle" /\ client'.ret # None)
               => (client'.ret = client'.data
                   \/ (~Truthy(client'.data)
                         /\ client'.ret = Some(EmptyJson)))]_vars

\* a call with use_cache=False has stored what it fetched over an older
\* entry with other data, which an earlier call had read from the cache
C30_Witness ==
  /\ client.pc = "idle"
  /\ ~client.use_cache
  /\ client.log = <<"request", "set">>
  /\ client.over = Some(TRUE)
  /\ stats.hits > 0
  /\ now > 0
  /\ Present(cache, client.key)
  /\ cache[client.key].created_at = now
  /\ Some(cache[client.key].data) = client.ret

====
